---------------------------- MODULE Spec2Model ----------------------------
(***************************************************************************)
(* F8 Slackbot: Slack signature verification (utils/slack-verification),   *)
(* keyword agent routing (services/agent-router), the three webhook        *)
(* endpoints of server.ts and their handlers.                              *)
(*                                                                         *)
(* JavaScript strings are TLA+ strings.  An HMAC-SHA256 hex digest is a    *)
(* symbolic term [key, msg, flip]: 64 hex characters determined by the key *)
(* and the message (two digests are the same characters exactly when key   *)
(* and message are the same), with `flip` naming one substituted character *)
(* position (0: none).                                                     *)
(***************************************************************************)
EXTENDS Integers, Sequences, FiniteSets, TLC

VARIABLES env, now, vcall, reqs, rcall

vars == <<env, now, vcall, reqs, rcall>>

(***************************************************************************)
(* Bounds of the model and constants of the program.                       *)
(***************************************************************************)
Now0 == 1000
MaxTicks == 2
MaxRequests == 1

\* calls of verifySlackSignature with other inputs, made between the
\* presentations of one input
MaxBetween == 1

Window == 300
DigestHexLen == 64

Undefined == "<undefined>"

IsFalsy(s) == s = Undefined \/ s = ""

(***************************************************************************)
(* Strings.                                                                *)
(***************************************************************************)
CharAt(s, i) == SubSeq(s, i, i)

Includes(s, k) == \E i \in 1..(Len(s) - Len(k) + 1) : SubSeq(s, i, i + Len(k) - 1) = k

Digits == <<"0", "1", "2", "3", "4", "5", "6", "7", "8", "9">>

IsDigit(c) == \E d \in 1..10 : Digits[d] = c

DigitVal(c) == (CHOOSE d \in 1..10 : Digits[d] = c) - 1

\* white space, as String.prototype.trim and parseInt skip it
IsSpace(c) == c \in {" ", "\t", "\n", "\r"}

RECURSIVE SkipSpaces(_)
SkipSpaces(s) == IF Len(s) > 0 /\ IsSpace(CharAt(s, 1)) THEN SkipSpaces(SubSeq(s, 2, Len(s))) ELSE s

RECURSIVE DigitPrefixLen(_)
DigitPrefixLen(s) == IF Len(s) > 0 /\ IsDigit(CharAt(s, 1)) THEN 1 + DigitPrefixLen(SubSeq(s, 2, Len(s))) ELSE 0

RECURSIVE DigitsValue(_, _)
DigitsValue(s, n) == IF n = 0 THEN 0 ELSE 10 * DigitsValue(s, n - 1) + DigitVal(CharAt(s, n))

\* parseInt(s, 10): leading white space and one sign are skipped, the longest
\* run of decimal digits is read, anything after it is ignored; NaN without digits.
ParseInt(s) ==
    LET t == SkipSpaces(s)
        neg == Len(t) > 0 /\ CharAt(t, 1) = "-"
        signed == Len(t) > 0 /\ (CharAt(t, 1) = "-" \/ CharAt(t, 1) = "+")
        u == IF signed THEN SubSeq(t, 2, Len(t)) ELSE t
        n == DigitPrefixLen(u)
    IN  IF n = 0 THEN [nan |-> TRUE, val |-> 0]
        ELSE [nan |-> FALSE, val |-> IF neg THEN 0 - DigitsValue(u, n) ELSE DigitsValue(u, n)]

Abs(x) == IF x < 0 THEN 0 - x ELSE x

RECURSIVE TrimEnd(_)
TrimEnd(s) == IF Len(s) > 0 /\ IsSpace(CharAt(s, Len(s))) THEN TrimEnd(SubSeq(s, 1, Len(s) - 1)) ELSE s

\* String.prototype.trim
Trim(s) == TrimEnd(SkipSpaces(s))

\* the first position of character c in s, 0 when it does not occur
IndexOf(s, c) == IF \E i \in 1..Len(s) : CharAt(s, i) = c THEN CHOOSE i \in 1..Len(s) : CharAt(s, i) = c /\ \A j \in 1..(i - 1) : CharAt(s, j) # c ELSE 0

\* text.replace(/<@[^>]+>/g, ''): every "<@", one or more characters other than
\* ">", and the ">" that follows them, is removed, scanning from the left
RECURSIVE StripMentions(_)
StripMentions(s) ==
    IF s = "" THEN ""
    ELSE LET rest == SubSeq(s, 3, Len(s))
             close == IndexOf(rest, ">")
         IN  IF Len(s) >= 2 /\ SubSeq(s, 1, 2) = "<@" /\ close >= 2
             THEN StripMentions(SubSeq(rest, close + 1, Len(rest)))
             ELSE CharAt(s, 1) \o StripMentions(SubSeq(s, 2, Len(s)))

(***************************************************************************)
(* Request bodies as express hands them to the handlers: parsed objects.   *)
(* A property that is not there is Undefined.                              *)
(***************************************************************************)
SlackEvent(type, subtype, text, channel, user, ts) == [type |-> type, subtype |-> subtype, text |-> text, channel |-> channel, user |-> user, ts |-> ts]

NoEvent == SlackEvent(Undefined, Undefined, Undefined, Undefined, Undefined, Undefined)

NoObject == [type |-> Undefined, challenge |-> Undefined, event |-> NoEvent, text |-> Undefined, channel_id |-> Undefined, user_id |-> Undefined, question |-> Undefined, channel |-> Undefined, user |-> Undefined]

UrlVerification(challenge) == [NoObject EXCEPT !.type = "url_verification", !.challenge = challenge]

EventCallback(event) == [NoObject EXCEPT !.type = "event_callback", !.event = event]

SlashCommand(text, channel_id, user_id) == [NoObject EXCEPT !.text = text, !.channel_id = channel_id, !.user_id = user_id]

AskF8(question, channel, user) == [NoObject EXCEPT !.question = question, !.channel = channel, !.user = user]

ObjectBody(o) == [kind |-> "object", str |-> "", obj |-> o]

StringBody(s) == [kind |-> "string", str |-> s, obj |-> NoObject]

RECURSIVE JoinFields(_)
JoinFields(fields) ==
    IF fields = <<>> THEN ""
    ELSE IF Len(fields) = 1 THEN fields[1]
    ELSE fields[1] \o "," \o JoinFields(Tail(fields))

JsonMember(name, value) == IF value = Undefined THEN <<>> ELSE <<"\"" \o name \o "\":\"" \o value \o "\"">>

JsonEvent(ev) ==
    "{" \o JoinFields(JsonMember("type", ev.type) \o JsonMember("subtype", ev.subtype) \o JsonMember("text", ev.text)
                      \o JsonMember("channel", ev.channel) \o JsonMember("user", ev.user) \o JsonMember("ts", ev.ts)) \o "}"

\* JSON.stringify of a body: the text a JSON client sends and signs
JSONStringify(o) ==
    "{" \o JoinFields(JsonMember("type", o.type) \o JsonMember("challenge", o.challenge)
                      \o (IF o.event = NoEvent THEN <<>> ELSE <<"\"event\":" \o JsonEvent(o.event)>>)
                      \o JsonMember("question", o.question) \o JsonMember("channel", o.channel) \o JsonMember("user", o.user)) \o "}"

UrlEncodeChar(c) == IF c = " " THEN "+" ELSE IF c = "<" THEN "%3C" ELSE IF c = ">" THEN "%3E" ELSE IF c = "@" THEN "%40" ELSE IF c = "?" THEN "%3F" ELSE c

RECURSIVE UrlEncode(_)
UrlEncode(s) == IF s = "" THEN "" ELSE UrlEncodeChar(SubSeq(s, 1, 1)) \o UrlEncode(SubSeq(s, 2, Len(s)))

FormMember(name, value) == IF value = Undefined THEN <<>> ELSE <<name \o "=" \o UrlEncode(value)>>

RECURSIVE JoinForm(_)
JoinForm(fields) ==
    IF fields = <<>> THEN ""
    ELSE IF Len(fields) = 1 THEN fields[1]
    ELSE fields[1] \o "&" \o JoinForm(Tail(fields))

\* the application/x-www-form-urlencoded text of a slash command
FormEncode(o) == JoinForm(FormMember("text", o.text) \o FormMember("channel_id", o.channel_id) \o FormMember("user_id", o.user_id))

(***************************************************************************)
(* Signatures: text, then an optional hex digest, then text.               *)
(***************************************************************************)
NoDigest == [key |-> "", msg |-> "", flip |-> 0 - 1]

HmacSha256Hex(key, msg) == [key |-> key, msg |-> msg, flip |-> 0]

SigString(prefix, digest, suffix) == [prefix |-> prefix, digest |-> digest, suffix |-> suffix]

PlainSig(text) == SigString(text, NoDigest, "")

\* Buffer.from(signature).length
ByteLength(sig) == Len(sig.prefix) + (IF sig.digest = NoDigest THEN 0 ELSE DigestHexLen) + Len(sig.suffix)

\* `${body}`: a string (or Buffer) is its own text, a parsed object is "[object Object]"
TemplateString(body) == IF body.kind = "string" THEN body.str ELSE "[object Object]"

SigBaseString(timestamp, body) == "v0:" \o timestamp \o ":" \o TemplateString(body)

ExpectedSignature(secret, timestamp, body) == SigString("v0=", HmacSha256Hex(secret, SigBaseString(timestamp, body)), "")

\* crypto.timingSafeEqual: RangeError on buffers of different byte length
TimingSafeEqual(a, b) == IF ByteLength(a) # ByteLength(b) THEN "throw" ELSE IF a = b THEN "true" ELSE "false"


\* faulty variant: the check of the secret left out
SecretAssumed(e) == TRUE

SecretConfigured(e) == ~IsFalsy(e.SLACK_SIGNING_SECRET)


\* faulty variant: the window compared with >= : a timestamp exactly 300 s away is refused
TimestampFreshExclusive(timestamp, currentTime) ==
    LET requestTime == ParseInt(timestamp)
    IN  requestTime.nan \/ ~(Abs(currentTime - requestTime.val) >= Window)

TimestampFresh(timestamp, currentTime) ==
    LET requestTime == ParseInt(timestamp)
    IN  requestTime.nan \/ ~(Abs(currentTime - requestTime.val) > Window)

\* faulty variant: a signature that was accepted is remembered and refused when
\* presented again
verifySlackSignatureOnce(e, currentTime, body, signature, timestamp) ==
    IF ~SecretConfigured(e) THEN "false"
    ELSE IF ~TimestampFresh(timestamp, currentTime) THEN "false"
    ELSE IF vcall.result = "true" /\ vcall.signature = signature THEN "false"
    ELSE TimingSafeEqual(signature, ExpectedSignature(e.SLACK_SIGNING_SECRET, timestamp, body))

\* verifySlackSignature(body, signature, timestamp): "true", "false" or "throw"
verifySlackSignature(e, currentTime, body, signature, timestamp) ==
    IF ~SecretConfigured(e) THEN "false"
    ELSE IF ~TimestampFresh(timestamp, currentTime) THEN "false"
    ELSE TimingSafeEqual(signature, ExpectedSignature(e.SLACK_SIGNING_SECRET, timestamp, body))

(***************************************************************************)
(* Agent router (services/agent-router).                                   *)
(***************************************************************************)
UpperChars == "ABCDEFGHIJKLMNOPQRSTUVWXYZ"

LowerChars == "abcdefghijklmnopqrstuvwxyz"

LowerChar(c) ==
    IF \E k \in 1..Len(UpperChars) : CharAt(UpperChars, k) = c
    THEN CharAt(LowerChars, CHOOSE k \in 1..Len(UpperChars) : CharAt(UpperChars, k) = c)
    ELSE c

RECURSIVE ToLowerCase(_)
ToLowerCase(s) == IF s = "" THEN "" ELSE LowerChar(CharAt(s, 1)) \o ToLowerCase(SubSeq(s, 2, Len(s)))

\* the categories of agentUrls, in the order determineAgentUrl tests their keywords
\* faulty variant: the spectra branch is tested before the science branch
CategoryOrderSpectraEarly == <<"compliance", "formulation", "spectra", "science", "marketing", "operations", "sourcing", "patent", "customerSuccess">>

\* the order of the keyword checks of determineAgentUrl
CategoryOrder == <<"compliance", "formulation", "science", "marketing", "operations", "sourcing", "patent", "spectra", "customerSuccess">>

Categories == {CategoryOrder[k] : k \in 1..Len(CategoryOrder)}

Keywords ==
    [compliance |-> {"compliance", "regulation", "fda", "legal", "sop"},
     formulation |-> {"formulation", "recipe", "ingredient", "dosage", "concentration"},
     science |-> {"science", "research", "study", "analysis", "testing"},
     marketing |-> {"marketing", "brand", "promotion", "advertising", "social media"},
     operations |-> {"operation", "process", "workflow", "efficiency", "management"},
     sourcing |-> {"sourcing", "supplier", "vendor", "procurement", "supply chain"},
     patent |-> {"patent", "intellectual property", "ip", "trademark", "copyright"},
     spectra |-> {"spectra", "gcms", "coa", "testing", "analysis"},
     customerSuccess |-> {"customer", "support", "help", "issue", "problem"}]

MatchesCategory(messageLower, cat) == \E k \in Keywords[cat] : Includes(messageLower, k)

\* the category whose branch of determineAgentUrl returns: the first one in
\* CategoryOrder with a keyword in the lower-cased message, else compliance
SelectedCategory(message) ==
    LET messageLower == ToLowerCase(message)
        hits == {k \in 1..Len(CategoryOrder) : MatchesCategory(messageLower, CategoryOrder[k])}
    IN  IF hits = {} THEN "compliance"
        ELSE CategoryOrder[CHOOSE k \in hits : \A j \in hits : k <= j]

\* faulty variant: a category without URL is replaced by the default category
determineAgentUrlOrDefault(e, message) ==
    LET url == e.agentUrls[SelectedCategory(message)]
    IN  IF ~IsFalsy(url) THEN url
        ELSE IF IsFalsy(e.agentUrls["compliance"]) THEN Undefined ELSE e.agentUrls["compliance"]

\* faulty variant: the URL selected last is kept and used for the calls that
\* are made while another routing is under way
determineAgentUrlShared(e, message) ==
    LET busy == {j \in 1..Len(reqs) : reqs[j].route.pc = "direct"}
        url == e.agentUrls[SelectedCategory(message)]
    IN  IF busy # {} THEN reqs[CHOOSE j \in busy : TRUE].route.calls[Len(reqs[CHOOSE j \in busy : TRUE].route.calls)].url
        ELSE IF IsFalsy(url) THEN Undefined ELSE url

\* determineAgentUrl(message): the URL, or Undefined for null
determineAgentUrl(e, message) ==
    LET url == e.agentUrls[SelectedCategory(message)]
    IN  IF IsFalsy(url) THEN Undefined ELSE url

\* a value in a template string or a concatenation: undefined prints as "undefined"
Str(v) == IF v = Undefined THEN "undefined" ELSE v

NoTimestamp == 0 - 1

\* a 2xx body that is no AgentResponse object ({}, text that is not JSON)
NoData == [wellFormed |-> FALSE, isNull |-> FALSE, success |-> FALSE, message |-> Undefined, agent |-> Undefined, hasUsage |-> FALSE, timestamp |-> NoTimestamp]

\* the 2xx body null: axios hands it on as response.data = null
NullData == [NoData EXCEPT !.isNull = TRUE]

AgentResponse(success, message, agent, hasUsage, timestamp) == [wellFormed |-> TRUE, isNull |-> FALSE, success |-> success, message |-> message, agent |-> agent, hasUsage |-> hasUsage, timestamp |-> timestamp]

NoAgentResponse(currentTime) == AgentResponse(FALSE, "No suitable agent found for this request", Undefined, FALSE, currentTime)

RoutingErrorResponse(currentTime) == AgentResponse(FALSE, "Error processing request. Please try again later.", Undefined, FALSE, currentTime)

\* context: channel, thread_ts, event_type, and the flags command and ask_f8
Context(channel, thread_ts, event_type, command, ask_f8) == [channel |-> channel, thread_ts |-> thread_ts, event_type |-> event_type, command |-> command, ask_f8 |-> ask_f8]

NoRequest == [message |-> Undefined, user_id |-> Undefined, context |-> Context(Undefined, Undefined, Undefined, FALSE, FALSE)]

AgentRequest(message, user_id, context) == [message |-> message, user_id |-> user_id, context |-> context]

\* one axios.post: the URL and the JSON body sent
HttpPost(url, request) == [url |-> url, body |-> [message |-> request.message, user_id |-> request.user_id, context |-> request.context]]

\* a routeToAgent call: where it is suspended, what it has sent, what it returned
IdleRoute == [pc |-> "idle", request |-> NoRequest, calls |-> <<>>, settled |-> <<>>, result |-> NoData]

\* faulty variant: the null check of the agent URL left out, the POST is made in any case
routeDirectlyUnchecked(e, currentTime, rt) ==
    [rt EXCEPT !.pc = "direct", !.calls = Append(@, HttpPost(Str(determineAgentUrl(e, rt.request.message)) \o "/query", rt.request))]

\* faulty variant: the lower-cased copy of the message is what is sent
routeDirectlyLowerCased(e, currentTime, rt) ==
    LET agentUrl == determineAgentUrl(e, rt.request.message)
    IN  IF agentUrl = Undefined
        THEN [rt EXCEPT !.pc = "done", !.result = NoAgentResponse(currentTime)]
        ELSE [rt EXCEPT !.pc = "direct", !.calls = Append(@, HttpPost(agentUrl \o "/query", [rt.request EXCEPT !.message = ToLowerCase(@)]))]

routeDirectly(e, currentTime, rt) ==
    LET agentUrl == determineAgentUrl(e, rt.request.message)
    IN  IF agentUrl = Undefined
        THEN [rt EXCEPT !.pc = "done", !.result = NoAgentResponse(currentTime)]
        ELSE [rt EXCEPT !.pc = "direct", !.calls = Append(@, HttpPost(agentUrl \o "/query", rt.request))]

routeViaPlatformGateway(rt, platformUrl) ==
    [rt EXCEPT !.pc = "gateway", !.calls = Append(@, HttpPost(platformUrl \o "/api/chat", rt.request))]

\* faulty variant: the route depends on who asks: slash commands skip the gateway
routeToAgentCommandsDirect(e, currentTime, request) ==
    LET rt == [IdleRoute EXCEPT !.request = request]
    IN  IF ~IsFalsy(e.PLATFORM_GATEWAY_URL) /\ ~request.context.command
        THEN routeViaPlatformGateway(rt, e.PLATFORM_GATEWAY_URL)
        ELSE routeDirectly(e, currentTime, rt)


\* routeToAgent up to its first await
routeToAgent(e, currentTime, request) ==
    LET rt == [IdleRoute EXCEPT !.request = request]
    IN  IF ~IsFalsy(e.PLATFORM_GATEWAY_URL)
        THEN routeViaPlatformGateway(rt, e.PLATFORM_GATEWAY_URL)
        ELSE routeDirectly(e, currentTime, rt)

\* the awaited axios.post settles: fulfilled with response.data, or rejected
\* (`settled` keeps, call by call, how the awaited post settled)
Settled(fulfilled, data) == [fulfilled |-> fulfilled, data |-> data]


\* faulty variant: the gateway's answer is not returned: direct routing follows in any case
GatewaySettlesAlwaysFallsBack(e, currentTime, rt, fulfilled, data) ==
    routeDirectly(e, currentTime, [rt EXCEPT !.settled = Append(@, Settled(fulfilled, data))])

\* faulty variant: no fallback: a failed gateway call ends the routing with the error result
GatewaySettlesNoFallback(e, currentTime, rt, fulfilled, data) ==
    LET seen == [rt EXCEPT !.settled = Append(@, Settled(fulfilled, data))]
    IN  IF fulfilled THEN [seen EXCEPT !.pc = "done", !.result = data]
        ELSE [seen EXCEPT !.pc = "done", !.result = RoutingErrorResponse(currentTime)]

\* faulty variant: a failed gateway call is retried once before the fallback
GatewaySettlesRetries(e, currentTime, rt, fulfilled, data) ==
    LET seen == [rt EXCEPT !.settled = Append(@, Settled(fulfilled, data))]
    IN  IF fulfilled THEN [seen EXCEPT !.pc = "done", !.result = data]
        ELSE IF Len(rt.calls) < 2 THEN [seen EXCEPT !.calls = Append(@, rt.calls[1])]
        ELSE routeDirectly(e, currentTime, seen)

\* faulty variant: a negative answer of the gateway is taken for a failed call
GatewaySettlesNegativeFallsBack(e, currentTime, rt, fulfilled, data) ==
    LET seen == [rt EXCEPT !.settled = Append(@, Settled(fulfilled, data))]
    IN  IF fulfilled /\ (data.isNull \/ ~data.wellFormed \/ data.success) THEN [seen EXCEPT !.pc = "done", !.result = data]
        ELSE routeDirectly(e, currentTime, seen)

GatewaySettles(e, currentTime, rt, fulfilled, data) ==
    LET seen == [rt EXCEPT !.settled = Append(@, Settled(fulfilled, data))]
    IN  IF fulfilled THEN [seen EXCEPT !.pc = "done", !.result = data]
        ELSE routeDirectly(e, currentTime, seen)

\* faulty variant: a failed direct call is reported with the message of a missing endpoint
DirectSettlesAsNoAgent(currentTime, rt, fulfilled, data) ==
    LET seen == [rt EXCEPT !.settled = Append(@, Settled(fulfilled, data))]
    IN  IF fulfilled THEN [seen EXCEPT !.pc = "done", !.result = data]
        ELSE [seen EXCEPT !.pc = "done", !.result = NoAgentResponse(currentTime)]


\* faulty variant: a failed direct call starts the routing over at the gateway
DirectSettlesStartsOver(currentTime, rt, fulfilled, data) ==
    IF fulfilled THEN [rt EXCEPT !.settled = Append(@, Settled(fulfilled, data)), !.pc = "done", !.result = data]
    ELSE IF Len(rt.calls) = 2 THEN [rt EXCEPT !.pc = "gateway", !.calls = <<rt.calls[1]>>, !.settled = <<>>]
    ELSE [rt EXCEPT !.calls = <<rt.calls[1]>>, !.settled = <<>>]

DirectSettles(currentTime, rt, fulfilled, data) ==
    LET seen == [rt EXCEPT !.settled = Append(@, Settled(fulfilled, data))]
    IN  IF fulfilled THEN [seen EXCEPT !.pc = "done", !.result = data]
        ELSE [seen EXCEPT !.pc = "done", !.result = RoutingErrorResponse(currentTime)]

(***************************************************************************)
(* The endpoints of server.ts and their handlers.  A request is handled    *)
(* in one step up to the first outbound call it awaits; the rest of its    *)
(* handler runs when that call settles.                                    *)
(***************************************************************************)
OrUndefined(v) == IF IsFalsy(v) THEN Undefined ELSE v

NoReply == [shape |-> "none", error |-> Undefined, challenge |-> Undefined, text |-> Undefined, response_type |-> Undefined, attachments |-> "absent", success |-> FALSE, message |-> Undefined, agent |-> Undefined, hasUsage |-> FALSE, timestamp |-> NoTimestamp]

ErrorReply(error) == [NoReply EXCEPT !.shape = "error", !.error = error]

ChallengeReply(challenge) == [NoReply EXCEPT !.shape = "challenge", !.challenge = challenge]

TextReply(text) == [NoReply EXCEPT !.shape = "text", !.text = text]

CommandReply(response_type, text, attachments) == [NoReply EXCEPT !.shape = "command", !.response_type = response_type, !.text = text, !.attachments = attachments]

ResultReply(success, message, agent, hasUsage, timestamp) == [NoReply EXCEPT !.shape = "result", !.success = success, !.message = message, !.agent = agent, !.hasUsage = hasUsage, !.timestamp = timestamp]

\* the promise of a handler (processSlackEvent, processSlackCommand, processAskF8):
\* pending, fulfilled with a value, or rejected with the error raised
NotHandled == [done |-> FALSE, rejected |-> FALSE, success |-> FALSE, message |-> Undefined]

Handled(success, message) == [done |-> TRUE, rejected |-> FALSE, success |-> success, message |-> message]

Rejected(error) == [done |-> TRUE, rejected |-> TRUE, success |-> FALSE, message |-> error]

\* the message of the RangeError of crypto.timingSafeEqual
BufferLengthError == "Input buffers must have the same byte length"

\* response.success, read from a response that is null
NullSuccessError == "Cannot read properties of null (reading 'success')"


\* an HTTP request: what arrived (endpoint, the two signature headers, the parsed
\* body), what verifySlackSignature returned for it, the response sent (status 0:
\* none yet), its routeToAgent call, what its handler's promise resolved to, and
\* the messages posted to Slack on its behalf (chat.postMessage)
HttpRequest(endpoint, hasSignature, signature, hasTimestamp, timestamp, o) ==
    [endpoint |-> endpoint, hasSignature |-> hasSignature, signature |-> signature, hasTimestamp |-> hasTimestamp, timestamp |-> timestamp,
     body |-> o, verified |-> "not_called", status |-> 0, reply |-> NoReply, route |-> IdleRoute, handled |-> NotHandled, posted |-> <<>>]

NoHttpRequest == HttpRequest("none", FALSE, PlainSig(""), FALSE, "", NoObject)

Respond(r, status, reply) == [r EXCEPT !.status = status, !.reply = reply]

\* !signature || !timestamp
MissingHeaders(r) == ~r.hasSignature \/ ByteLength(r.signature) = 0 \/ ~r.hasTimestamp \/ r.timestamp = ""

\* the handlers call verifySlackSignature(req.body, signature, timestamp) with the parsed body
VerifyRequest(e, currentTime, r) == verifySlackSignature(e, currentTime, ObjectBody(r.body), r.signature, r.timestamp)


\* faulty variant: the result of the verification is not looked at
SignatureRejectedNever(v) == FALSE

\* if (!verifySlackSignature(...)) return 401
SignatureRejected(v) == v # "true"

\* faulty variant: the outcome of the routing reaches the HTTP response
SlackEventRoutedAnswers(r) ==
    IF r.route.result.success THEN [r EXCEPT !.handled = Handled(TRUE, r.route.result.message)]
    ELSE Respond([r EXCEPT !.handled = Handled(FALSE, r.route.result.message)], 500, ErrorReply("Internal server error"))


\* faulty variant: no catch around the reads of the response
SlackEventRoutedUncaught(r) ==
    LET response == r.route.result
    IN  IF response.isNull THEN [r EXCEPT !.handled = Rejected(NullSuccessError)]
        ELSE IF response.success /\ response.message = Undefined THEN [r EXCEPT !.handled = Rejected(NullSuccessError)]
        ELSE IF response.success THEN [r EXCEPT !.handled = Handled(TRUE, response.message)]
        ELSE [r EXCEPT !.handled = Handled(FALSE, response.message)]

\* processSlackEvent after its routeToAgent call has returned; its catch turns
\* what the reads of the response raise into a failure value
SlackEventRouted(r) ==
    LET response == r.route.result
    IN  IF response.isNull THEN [r EXCEPT !.handled = Handled(FALSE, "Error processing event")]
        ELSE IF response.success /\ response.message = Undefined THEN [r EXCEPT !.handled = Handled(FALSE, "Error processing event")]
        ELSE IF response.success THEN [r EXCEPT !.handled = Handled(TRUE, response.message)]
        ELSE [r EXCEPT !.handled = Handled(FALSE, response.message)]

\* faulty variant: a failure result is delivered like an answer
SlackCommandResultInChannel(response) ==
    IF response.isNull THEN CommandReply("ephemeral", "Error: " \o NullSuccessError, "absent")
    ELSE IF response.success THEN CommandReply("in_channel", response.message, IF response.hasUsage THEN "footer" ELSE "empty")
    ELSE CommandReply("in_channel", "Error: " \o Str(response.message), "absent")

\* what processSlackCommand resolves to once routeToAgent has returned
SlackCommandResult(response) ==
    IF response.isNull THEN CommandReply("ephemeral", "Error: " \o NullSuccessError, "absent")
    ELSE IF response.success THEN CommandReply("in_channel", response.message, IF response.hasUsage THEN "footer" ELSE "empty")
    ELSE CommandReply("ephemeral", "Error: " \o Str(response.message), "absent")

\* processSlackCommand after its routeToAgent call has returned, and res.json(response)
SlackCommandRouted(r) ==
    LET result == SlackCommandResult(r.route.result)
    IN  Respond([r EXCEPT !.handled = Handled(result.response_type = "in_channel", result.text)], 200, result)

\* faulty variant: the reply is always stamped with the current time
AskF8ResultStampedNow(currentTime, response) ==
    IF response.isNull THEN ResultReply(FALSE, "Error processing request. Please try again later.", Undefined, FALSE, currentTime)
    ELSE ResultReply(response.success, response.message, OrUndefined(response.agent), response.hasUsage, currentTime)

\* what processAskF8 resolves to once routeToAgent has returned
AskF8Result(currentTime, response) ==
    IF response.isNull THEN ResultReply(FALSE, "Error processing request. Please try again later.", Undefined, FALSE, currentTime)
    ELSE ResultReply(response.success, response.message, OrUndefined(response.agent), response.hasUsage,
                     IF response.timestamp = NoTimestamp THEN currentTime ELSE response.timestamp)

\* processAskF8 after its routeToAgent call has returned, and res.json(result)
AskF8Routed(currentTime, r) ==
    LET result == AskF8Result(currentTime, r.route.result)
    IN  Respond([r EXCEPT !.handled = Handled(result.success, result.message)], 200, result)

\* the handler's continuation once routeToAgent has returned
Routed(currentTime, r) ==
    IF r.route.pc # "done" THEN r
    ELSE IF r.endpoint = "events" THEN SlackEventRouted(r)
    ELSE IF r.endpoint = "commands" THEN SlackCommandRouted(r)
    ELSE AskF8Routed(currentTime, r)

CallRouter(e, currentTime, r, request) == Routed(currentTime, [r EXCEPT !.route = routeToAgent(e, currentTime, request)])

\* faulty variant: bot messages are not skipped
processSlackEventAnswersBots(e, currentTime, r, event) ==
    IF event.type # "app_mention" /\ event.type # "message" THEN [r EXCEPT !.handled = Handled(TRUE, Undefined)]
    ELSE LET question == IF event.text = Undefined THEN Undefined ELSE Trim(StripMentions(event.text))
         IN  IF IsFalsy(question) THEN [r EXCEPT !.handled = Handled(TRUE, Undefined)]
             ELSE CallRouter(e, currentTime, r,
                             AgentRequest(question, IF IsFalsy(event.user) THEN "unknown" ELSE event.user,
                                          Context(OrUndefined(event.channel), OrUndefined(event.ts), event.type, FALSE, FALSE)))

processSlackEvent(e, currentTime, r, event) ==
    IF event.type # "app_mention" /\ event.type # "message" THEN [r EXCEPT !.handled = Handled(TRUE, Undefined)]
    ELSE IF event.subtype = "bot_message" THEN [r EXCEPT !.handled = Handled(TRUE, Undefined)]
    ELSE LET question == IF event.text = Undefined THEN Undefined ELSE Trim(StripMentions(event.text))
         IN  IF IsFalsy(question) THEN [r EXCEPT !.handled = Handled(TRUE, Undefined)]
             ELSE CallRouter(e, currentTime, r,
                             AgentRequest(question, IF IsFalsy(event.user) THEN "unknown" ELSE event.user,
                                          Context(OrUndefined(event.channel), OrUndefined(event.ts), event.type, FALSE, FALSE)))

processSlackCommand(e, currentTime, r) ==
    CallRouter(e, currentTime, r, AgentRequest(r.body.text, r.body.user_id, Context(r.body.channel_id, Undefined, Undefined, TRUE, FALSE)))

processAskF8(e, currentTime, r) ==
    CallRouter(e, currentTime, r, AgentRequest(r.body.question, r.body.user, Context(r.body.channel, Undefined, Undefined, FALSE, TRUE)))

\* faulty variant: no branch for url_verification, the request falls through to 'OK'
handleSlackEventsNoChallenge(e, currentTime, r) ==
    IF MissingHeaders(r) THEN Respond(r, 400, ErrorReply("Missing required headers"))
    ELSE LET v == VerifyRequest(e, currentTime, r)
             rv == [r EXCEPT !.verified = v]
         IN  IF v = "throw" THEN Respond(rv, 500, ErrorReply("Internal server error"))
             ELSE IF SignatureRejected(v) THEN Respond(rv, 401, ErrorReply("Invalid signature"))
             ELSE IF r.body.type = "event_callback" /\ r.body.event # NoEvent
                  THEN Respond(processSlackEvent(e, currentTime, rv, r.body.event), 200, TextReply("OK"))
             ELSE Respond(rv, 200, TextReply("OK"))


\* app.post('/api/slack/events')
handleSlackEvents(e, currentTime, r) ==
    IF MissingHeaders(r) THEN Respond(r, 400, ErrorReply("Missing required headers"))
    ELSE LET v == VerifyRequest(e, currentTime, r)
             rv == [r EXCEPT !.verified = v]
         IN  IF v = "throw" THEN Respond(rv, 500, ErrorReply("Internal server error"))
             ELSE IF SignatureRejected(v) THEN Respond(rv, 401, ErrorReply("Invalid signature"))
             ELSE IF r.body.type = "url_verification" THEN Respond(rv, 200, ChallengeReply(r.body.challenge))
             ELSE IF r.body.type = "event_callback" /\ r.body.event # NoEvent
                  THEN Respond(processSlackEvent(e, currentTime, rv, r.body.event), 200, TextReply("OK"))
             ELSE Respond(rv, 200, TextReply("OK"))

\* faulty variant: a command without text is passed on like any other
handleSlackCommandsNoUsage(e, currentTime, r) ==
    IF MissingHeaders(r) THEN Respond(r, 400, ErrorReply("Missing required headers"))
    ELSE LET v == VerifyRequest(e, currentTime, r)
             rv == [r EXCEPT !.verified = v]
         IN  IF v = "throw" THEN Respond(rv, 200, CommandReply("ephemeral", "Error: " \o BufferLengthError, "absent"))
             ELSE IF SignatureRejected(v) THEN Respond(rv, 401, ErrorReply("Invalid signature"))
             ELSE processSlackCommand(e, currentTime, rv)

\* app.post('/api/slack/commands')
handleSlackCommands(e, currentTime, r) ==
    IF MissingHeaders(r) THEN Respond(r, 400, ErrorReply("Missing required headers"))
    ELSE LET v == VerifyRequest(e, currentTime, r)
             rv == [r EXCEPT !.verified = v]
         IN  IF v = "throw" THEN Respond(rv, 200, CommandReply("ephemeral", "Error: " \o BufferLengthError, "absent"))
             ELSE IF SignatureRejected(v) THEN Respond(rv, 401, ErrorReply("Invalid signature"))
             ELSE IF IsFalsy(r.body.text)
                  THEN Respond(rv, 200, CommandReply("ephemeral", "Please provide a question or command. Usage: /f8 [question]", "absent"))
             ELSE processSlackCommand(e, currentTime, rv)

\* faulty variant: only a missing question is refused, an empty one is passed on
handleAskF8MissingOnly(e, currentTime, r) ==
    IF r.body.question = Undefined THEN Respond(r, 400, ResultReply(FALSE, "Question is required", Undefined, FALSE, NoTimestamp))
    ELSE processAskF8(e, currentTime, r)

\* app.post('/api/slack/ask-f8')
handleAskF8(e, currentTime, r) ==
    IF IsFalsy(r.body.question) THEN Respond(r, 400, ResultReply(FALSE, "Question is required", Undefined, FALSE, NoTimestamp))
    ELSE processAskF8(e, currentTime, r)

(***************************************************************************)
(* Inputs.                                                                 *)
(***************************************************************************)
TestSecret == "test_signing_secret"

GatewayUrl == "https://platform-gateway.example.com"

AgentUrlOf(cat) == "https://" \o cat \o "-agent.example.com"

\* the per-category agent URLs of the environment: those of `configured` are set
AgentTable(configured) == [c \in Categories |-> IF c \in configured THEN AgentUrlOf(c) ELSE Undefined]

Env(secret, gateway, configured) == [SLACK_SIGNING_SECRET |-> secret, PLATFORM_GATEWAY_URL |-> gateway, agentUrls |-> AgentTable(configured)]

\* what axios rejects an outbound call with: the 30-second timeout has expired,
\* the connection has failed, or the status of the answer is not 2xx
CallError(code) == [NoData EXCEPT !.message = code]

CallErrors == {CallError("ECONNABORTED"), CallError("ECONNREFUSED"), CallError("ERR_BAD_RESPONSE")}

\* what a gateway or an agent may answer with a 2xx status
DownstreamData ==
    {AgentResponse(TRUE, "Answer", "compliance-agent", TRUE, 5),
     AgentResponse(FALSE, "Agent could not answer", Undefined, FALSE, NoTimestamp),
     NoData, NullData}

NoCall == [body |-> StringBody(""), signature |-> PlainSig(""), timestamp |-> "", at |-> 0, result |-> "none", prev |-> "none", between |-> 0]

(***************************************************************************)
(* verifySlackSignature called on its own, as its unit tests call it.      *)
(***************************************************************************)
VerifySecrets == {Undefined, "", TestSecret}

VerifyTimestamps == {"699", "700", "1000", "1001", "1300", "1301", "1303", "abc"}

VerifyBodies == {"", "{\"type\":\"url_verification\"}", "{\"type\":\"url_verification\",\"challenge\":\"x\"}"}

FlipDigest(sig, pos) == [sig EXCEPT !.digest.flip = pos]

\* signatures a caller may present with a timestamp and a body: their HMAC under
\* the signing secret or under another key, that HMAC with a character replaced,
\* with the version prefix replaced or with a character appended, the HMAC of
\* another body or of another timestamp, and texts that hold no digest at all
SignaturesFor(timestamp, body) ==
    LET own == ExpectedSignature(TestSecret, timestamp, StringBody(body))
    IN  {own, ExpectedSignature("other_secret", timestamp, StringBody(body)),
         FlipDigest(own, 8), [own EXCEPT !.prefix = "v1="], [own EXCEPT !.suffix = "0"],
         PlainSig(""), PlainSig("v0="), PlainSig("v0=invalid_signature_12345")}
        \cup {ExpectedSignature(TestSecret, timestamp, StringBody(b)) : b \in VerifyBodies}
        \cup {ExpectedSignature(TestSecret, t, StringBody(body)) : t \in {"1000", "1001"}}

VerifyInputs ==
    UNION {{[body |-> StringBody(b), signature |-> sg, timestamp |-> t, at |-> 0, result |-> "none", prev |-> "none", between |-> 0] : sg \in SignaturesFor(t, b)} :
              b \in VerifyBodies, t \in VerifyTimestamps}

ClockValues == {Now0 + a + b * Window : a \in 0..MaxTicks, b \in 0..1}

InitVerify ==
    /\ env \in {Env(sec, Undefined, {}) : sec \in VerifySecrets}
    /\ now = Now0
    /\ vcall \in VerifyInputs
    /\ reqs = <<>>
    /\ rcall = IdleRoute

\* the call is made (again) at the current time; `prev` keeps what the previous
\* presentation returned
VerifyCall ==
    /\ vcall' = [vcall EXCEPT !.at = now, !.result = verifySlackSignature(env, now, vcall.body, vcall.signature, vcall.timestamp), !.prev = vcall.result]
    /\ UNCHANGED <<env, now, reqs, rcall>>

\* other requests verified in between: Slack's signature of another body, and a
\* text that is no digest
OtherInputs ==
    {[body |-> StringBody("other"), signature |-> sg, timestamp |-> "1000"] :
        sg \in {ExpectedSignature(TestSecret, "1000", StringBody("other")), PlainSig("v0=invalid_signature_12345")}}

\* a call with another input; its result goes to its own caller
VerifyOther(o) ==
    /\ vcall.result # "none"
    /\ vcall.between < MaxBetween
    /\ verifySlackSignature(env, now, o.body, o.signature, o.timestamp) \in {"true", "false", "throw"}
    /\ vcall' = [vcall EXCEPT !.between = @ + 1]
    /\ UNCHANGED <<env, now, reqs, rcall>>

Tick(d) ==
    /\ now + d \in ClockValues
    /\ now' = now + d
    /\ UNCHANGED <<env, vcall, reqs, rcall>>

NextVerify ==
    \/ VerifyCall
    \/ \E o \in OtherInputs : VerifyOther(o)
    \/ \E d \in {1, Window} : Tick(d)

SpecVerify == InitVerify /\ [][NextVerify]_vars

(***************************************************************************)
(* routeToAgent called on its own, with the downstream calls settling.     *)
(***************************************************************************)
RouteMessages ==
    {"What are FDA regulations?", "random text", "I need help with my account",
     "shipping costs", "Analysis of the GCMS spectra", "Is my recipe patent pending",
     "Equipment issue", "Our IP and trademark", "COA for the GCMS run", "Testing the recipe"}

RouteTables == {{}, {"compliance"}, {"customerSuccess"}, {"patent", "spectra"}, Categories \ {"compliance"}, Categories}

RouteContext == Context("C1", Undefined, Undefined, TRUE, FALSE)

InitRoute ==
    /\ env \in {Env(TestSecret, gw, t) : gw \in {Undefined, GatewayUrl}, t \in RouteTables}
    /\ now = Now0
    /\ vcall = NoCall
    /\ reqs = <<>>
    /\ rcall = IdleRoute

RouteCall(message) ==
    /\ rcall.pc = "idle"
    /\ rcall' = routeToAgent(env, now, AgentRequest(message, "U1", RouteContext))
    /\ UNCHANGED <<env, now, vcall, reqs>>

RouteGatewaySettles(fulfilled, data) ==
    /\ rcall.pc = "gateway"
    /\ rcall' = GatewaySettles(env, now, rcall, fulfilled, data)
    /\ UNCHANGED <<env, now, vcall, reqs>>

RouteDirectSettles(fulfilled, data) ==
    /\ rcall.pc = "direct"
    /\ rcall' = DirectSettles(now, rcall, fulfilled, data)
    /\ UNCHANGED <<env, now, vcall, reqs>>

NextRoute ==
    \/ \E m \in RouteMessages : RouteCall(m)
    \/ \E d \in DownstreamData : RouteGatewaySettles(TRUE, d)
    \/ \E err \in CallErrors : RouteGatewaySettles(FALSE, err)
    \/ \E d \in DownstreamData : RouteDirectSettles(TRUE, d)
    \/ \E err \in CallErrors : RouteDirectSettles(FALSE, err)

SpecRoute == InitRoute /\ [][NextRoute]_vars

\* the call in flight settles: axios fulfils it, or rejects it, at the latest
\* when its timeout of 30000 ms expires
CallSettles ==
    \/ \E d \in DownstreamData : RouteGatewaySettles(TRUE, d)
    \/ \E err \in CallErrors : RouteGatewaySettles(FALSE, err)
    \/ \E d \in DownstreamData : RouteDirectSettles(TRUE, d)
    \/ \E err \in CallErrors : RouteDirectSettles(FALSE, err)

\* routeToAgent with no outbound call left unsettled for ever
SpecRouteFair == InitRoute /\ [][NextRoute]_vars /\ WF_vars(CallSettles)

(***************************************************************************)
(* The server: MaxRequests requests arrive at the three endpoints and are  *)
(* handled concurrently, their outbound calls settling in any order.       *)
(***************************************************************************)
ServerEnvs == {Env(sec, gw, t) : sec \in {Undefined, TestSecret}, gw \in {Undefined, GatewayUrl}, t \in {{}, {"compliance"}}}

EventBodies ==
    {UrlVerification("x"),
     EventCallback(SlackEvent("app_mention", Undefined, "<@U1> What are FDA regulations?", "C1", "U2", "1.1")),
     EventCallback(SlackEvent("app_mention", Undefined, "<@U1>  ", "C1", "U2", "1.2")),
     EventCallback(SlackEvent("message", Undefined, "What are FDA regulations?", "C1", "U2", "1.3")),
     EventCallback(SlackEvent("message", "bot_message", "What are FDA regulations?", "C1", "U1", "1.4")),
     EventCallback(SlackEvent("reaction_added", Undefined, Undefined, "C1", "U2", "1.5"))}

CommandBodies == {SlashCommand("", "C1", "U2"), SlashCommand("  ", "C1", "U2"), SlashCommand("shipping costs", "C1", "U2")}

AskBodies == {AskF8(Undefined, "C1", "U2"), AskF8("", "C1", "U2"), AskF8("  ", "C1", "U2"), AskF8("random text", "C1", "U2"), AskF8("shipping costs", "C1", "U2")}

ServerTimestamps == {"1000", "699"}

\* the text of the body on the wire, which the sender signs
RawBody(endpoint, o) == IF endpoint = "commands" THEN FormEncode(o) ELSE JSONStringify(o)

\* signature headers a request may carry: Slack's (the HMAC of the text sent),
\* that one with a character replaced, the HMAC of the text "[object Object]",
\* and a text that is no digest; or one of the two headers missing
SignedRequests(endpoint, o) ==
    LET slack(t) == ExpectedSignature(TestSecret, t, StringBody(RawBody(endpoint, o)))
    IN  {HttpRequest(endpoint, TRUE, sg, TRUE, t, o) :
            sg \in UNION {{slack(t2), FlipDigest(slack(t2), 8), ExpectedSignature(TestSecret, t2, ObjectBody(o)), PlainSig("v0=invalid_signature_12345")} : t2 \in ServerTimestamps},
            t \in ServerTimestamps}
        \cup {HttpRequest(endpoint, FALSE, PlainSig(""), TRUE, "1000", o), HttpRequest(endpoint, TRUE, slack("1000"), FALSE, "", o)}

EventRequests == UNION {SignedRequests("events", o) : o \in EventBodies}

CommandRequests == UNION {SignedRequests("commands", o) : o \in CommandBodies}

AskRequests == {HttpRequest("ask-f8", FALSE, PlainSig(""), FALSE, "", o) : o \in AskBodies}

\* the next request to arrive is the first one of reqs that has not arrived yet
Arrives(i) == reqs[i].endpoint = "none" /\ \A j \in 1..(i - 1) : reqs[j].endpoint # "none"

InitServer(n) ==
    /\ env \in ServerEnvs
    /\ now = Now0
    /\ vcall = NoCall
    /\ reqs = [i \in 1..n |-> NoHttpRequest]
    /\ rcall = IdleRoute

Init == InitServer(MaxRequests)

PostSlackEvents(i, r) ==
    /\ Arrives(i)
    /\ reqs' = [reqs EXCEPT ![i] = handleSlackEvents(env, now, r)]
    /\ UNCHANGED <<env, now, vcall, rcall>>

PostSlackCommands(i, r) ==
    /\ Arrives(i)
    /\ reqs' = [reqs EXCEPT ![i] = handleSlackCommands(env, now, r)]
    /\ UNCHANGED <<env, now, vcall, rcall>>

PostAskF8(i, r) ==
    /\ Arrives(i)
    /\ reqs' = [reqs EXCEPT ![i] = handleAskF8(env, now, r)]
    /\ UNCHANGED <<env, now, vcall, rcall>>

GatewayResponds(i, fulfilled, data) ==
    /\ reqs[i].route.pc = "gateway"
    /\ reqs' = [reqs EXCEPT ![i] = Routed(now, [@ EXCEPT !.route = GatewaySettles(env, now, @, fulfilled, data)])]
    /\ UNCHANGED <<env, now, vcall, rcall>>

DirectResponds(i, fulfilled, data) ==
    /\ reqs[i].route.pc = "direct"
    /\ reqs' = [reqs EXCEPT ![i] = Routed(now, [@ EXCEPT !.route = DirectSettles(now, @, fulfilled, data)])]
    /\ UNCHANGED <<env, now, vcall, rcall>>

Next ==
    \/ \E i \in DOMAIN reqs, r \in EventRequests : PostSlackEvents(i, r)
    \/ \E i \in DOMAIN reqs, r \in CommandRequests : PostSlackCommands(i, r)
    \/ \E i \in DOMAIN reqs, r \in AskRequests : PostAskF8(i, r)
    \/ \E i \in DOMAIN reqs, d \in DownstreamData : GatewayResponds(i, TRUE, d)
    \/ \E i \in DOMAIN reqs, err \in CallErrors : GatewayResponds(i, FALSE, err)
    \/ \E i \in DOMAIN reqs, d \in DownstreamData : DirectResponds(i, TRUE, d)
    \/ \E i \in DOMAIN reqs, err \in CallErrors : DirectResponds(i, FALSE, err)

Spec == Init /\ [][Next]_vars

\* an outbound call of some request settles: axios fulfils it, or rejects it, at
\* the latest when its timeout of 30000 ms expires
OutboundSettles ==
    \/ \E i \in DOMAIN reqs, d \in DownstreamData : GatewayResponds(i, TRUE, d)
    \/ \E i \in DOMAIN reqs, err \in CallErrors : GatewayResponds(i, FALSE, err)
    \/ \E i \in DOMAIN reqs, d \in DownstreamData : DirectResponds(i, TRUE, d)
    \/ \E i \in DOMAIN reqs, err \in CallErrors : DirectResponds(i, FALSE, err)

\* the server with no outbound call left unsettled for ever
SpecFair == Init /\ [][Next]_vars /\ WF_vars(OutboundSettles)

\* the same server with one more request
InitConcurrent == InitServer(MaxRequests + 1)

SpecConcurrent == InitConcurrent /\ [][Next]_vars

\* the slash commands that pass the verification and carry a text: those for
\* which the handler calls processSlackCommand
RoutedCommands ==
    {r \in CommandRequests : /\ r.hasSignature /\ r.hasTimestamp /\ r.timestamp = "1000" /\ Trim(r.body.text) # ""
                             /\ r.signature = ExpectedSignature(TestSecret, r.timestamp, ObjectBody(r.body))}

\* the Ask F8 requests that carry a question
RoutedAsks == {r \in AskRequests : r.body.question # Undefined /\ Trim(r.body.question) # ""}

\* the same server, receiving only requests that reach routeToAgent with a
\* question (Ask F8 requests and those slash commands), its outbound calls being
\* answered with an object or cut off by the timeout
NextRuns ==
    \/ \E i \in DOMAIN reqs, r \in RoutedCommands : PostSlackCommands(i, r)
    \/ \E i \in DOMAIN reqs, r \in RoutedAsks : PostAskF8(i, r)
    \/ \E i \in DOMAIN reqs, d \in DownstreamData \ {NullData} : GatewayResponds(i, TRUE, d)
    \/ \E i \in DOMAIN reqs : GatewayResponds(i, FALSE, CallError("ECONNABORTED"))
    \/ \E i \in DOMAIN reqs, d \in DownstreamData \ {NullData} : DirectResponds(i, TRUE, d)
    \/ \E i \in DOMAIN reqs : DirectResponds(i, FALSE, CallError("ECONNABORTED"))

SpecRuns == InitConcurrent /\ [][NextRuns]_vars

\* texts of app mentions: mentions at the start, in the middle, at the end, next
\* to each other, alone, and a mention inside the brackets of another
MentionTexts ==
    {"<@U1> <@U2> What are the requirements?",
     "What <@U1> are the requirements? <@U2>",
     "What are<@U1><@U2> the requirements?",
     "<@U1><@U2> ",
     "<@> What are the requirements?",
     "<<@U1>@U2> What are the requirements?"}

\* app mentions with these texts, signed so that the verification passes
MentionRequests ==
    {HttpRequest("events", TRUE, ExpectedSignature(TestSecret, "1000", ObjectBody(o)), TRUE, "1000", o) :
        o \in {EventCallback(SlackEvent("app_mention", Undefined, t, "C1", "U2", "1.1")) : t \in MentionTexts}}

\* the same server, receiving only those app mentions
NextMentions ==
    \/ \E i \in DOMAIN reqs, r \in MentionRequests : PostSlackEvents(i, r)
    \/ \E i \in DOMAIN reqs, d \in DownstreamData : GatewayResponds(i, TRUE, d)
    \/ \E i \in DOMAIN reqs, err \in CallErrors : GatewayResponds(i, FALSE, err)
    \/ \E i \in DOMAIN reqs, d \in DownstreamData : DirectResponds(i, TRUE, d)
    \/ \E i \in DOMAIN reqs, err \in CallErrors : DirectResponds(i, FALSE, err)

SpecMentions == Init /\ [][NextMentions]_vars

(***************************************************************************)
(* Properties of the endpoints.                                            *)
(***************************************************************************)
SignedEndpoint(r) == r.endpoint \in {"events", "commands"}

\* the signature Slack sends with a request: the HMAC of the body text on the wire
SlackSignature(e, r) == ExpectedSignature(e.SLACK_SIGNING_SECRET, r.timestamp, StringBody(RawBody(r.endpoint, r.body)))

TimestampCurrent(timestamp, currentTime) == ~ParseInt(timestamp).nan /\ Abs(currentTime - ParseInt(timestamp).val) <= Window

C2_SameSignatureDifferentBody ==
    \A i, j \in DOMAIN reqs :
        (/\ SignedEndpoint(reqs[i]) /\ SignedEndpoint(reqs[j])
         /\ ~MissingHeaders(reqs[i]) /\ ~MissingHeaders(reqs[j])
         /\ reqs[i].timestamp = reqs[j].timestamp
         /\ reqs[i].signature = reqs[j].signature
         /\ reqs[i].body # reqs[j].body)
            => ~(reqs[i].verified = "true" /\ reqs[j].verified = "true")

\* C3: a request to /api/slack/events with a current timestamp and the signature
\* 'v0=' + hex(HMAC(secret, 'v0:' + timestamp + ':' + serialized body)) is never
\* answered 401: url_verification gets 200 with the challenge, event_callback 200 'OK'.
C3_SlackSignedEventAccepted ==
    \A i \in DOMAIN reqs :
        (/\ reqs[i].endpoint = "events"
         /\ ~MissingHeaders(reqs[i])
         /\ SecretConfigured(env)
         /\ TimestampCurrent(reqs[i].timestamp, now)
         /\ reqs[i].signature = SlackSignature(env, reqs[i]))
            => /\ reqs[i].status # 401
               /\ reqs[i].body.type = "url_verification" => (reqs[i].status = 200 /\ reqs[i].reply = ChallengeReply(reqs[i].body.challenge))
               /\ reqs[i].body.type = "event_callback" => (reqs[i].status = 200 /\ reqs[i].reply = TextReply("OK"))

\* C4: a request to a signed endpoint that carries both headers and a signature
\* that is not the expected one is answered 401 {error: 'Invalid signature'},
\* whatever the length of the claimed signature.
C4_WrongSignatureIs401 ==
    \A i \in DOMAIN reqs :
        (/\ SignedEndpoint(reqs[i])
         /\ ~MissingHeaders(reqs[i])
         /\ reqs[i].signature # SlackSignature(env, reqs[i])
         /\ reqs[i].signature # ExpectedSignature(env.SLACK_SIGNING_SECRET, reqs[i].timestamp, ObjectBody(reqs[i].body)))
            => (reqs[i].status = 401 /\ reqs[i].reply = ErrorReply("Invalid signature"))

(***************************************************************************)
(* Properties of verifySlackSignature.                                     *)
(***************************************************************************)
Called == vcall.result # "none"

\* the signature the caller computes for the call's own timestamp and body
OwnSignature == ExpectedSignature(env.SLACK_SIGNING_SECRET, vcall.timestamp, vcall.body)

\* C5: verifySlackSignature returns a boolean and never raises; a claimed
\* signature whose length is not that of 'v0=' + 64 hex characters yields false.
C5_NeverRaises ==
    Called => /\ vcall.result \in {"true", "false"}
              /\ ByteLength(vcall.signature) # Len("v0=") + DigestHexLen => vcall.result = "false"

\* C6: with the secret configured and |now - timestamp| <= 300 the call returns
\* true for the HMAC of its own timestamp and body, and false for every other
\* signature, the HMAC of another body or of another timestamp included.
C6_TrueExactlyForOwnHmac ==
    (Called /\ SecretConfigured(env) /\ TimestampCurrent(vcall.timestamp, vcall.at))
        => /\ vcall.signature = OwnSignature => vcall.result = "true"
           /\ vcall.signature # OwnSignature => vcall.result = "false"

\* C7: for a timestamp that denotes a number of seconds, a correct signature is
\* accepted exactly when |now - timestamp| <= 300 (300 s old or 300 s ahead is
\* still accepted), and a timestamp more than 300 s old or ahead yields false
\* whatever the signature.
C7_WindowInclusive ==
    (Called /\ SecretConfigured(env) /\ ~ParseInt(vcall.timestamp).nan)
        => LET distance == Abs(vcall.at - ParseInt(vcall.timestamp).val)
           IN  /\ distance > Window => vcall.result = "false"
               /\ vcall.signature = OwnSignature => (vcall.result = "true" <=> distance <= Window)

C7_Witness ==
    /\ Called /\ SecretConfigured(env)
    /\ vcall.signature = OwnSignature
    /\ ~ParseInt(vcall.timestamp).nan
    /\ vcall.at - ParseInt(vcall.timestamp).val = Window
    /\ vcall.result = "true"

\* C8: while SLACK_SIGNING_SECRET is not set every call returns false and none
\* raises, whatever the body, the timestamp and the length of the signature.
C8_UnsetSecretFailsClosed == (Called /\ IsFalsy(env.SLACK_SIGNING_SECRET)) => vcall.result = "false"

C8_Witness ==
    /\ Called /\ env.SLACK_SIGNING_SECRET = Undefined
    /\ vcall.result = "false"
    /\ ByteLength(vcall.signature) # Len("v0=") + DigestHexLen
    /\ TimestampCurrent(vcall.timestamp, vcall.at)

(***************************************************************************)
(* Properties of routeToAgent.                                             *)
(***************************************************************************)
GatewayConfigured == ~IsFalsy(env.PLATFORM_GATEWAY_URL)

EndsWith(s, x) == Len(s) >= Len(x) /\ SubSeq(s, Len(s) - Len(x) + 1, Len(s)) = x

IsChatCall(call) == EndsWith(call.url, "/api/chat")

IsQueryCall(call) == EndsWith(call.url, "/query")

QueryCalls(rt) == {k \in 1..Len(rt.calls) : IsQueryCall(rt.calls[k])}

ChatCalls(rt) == {k \in 1..Len(rt.calls) : IsChatCall(rt.calls[k])}

GatewayFailed(rt) == GatewayConfigured /\ Len(rt.settled) >= 1 /\ ~rt.settled[1].fulfilled

\* C9: with a gateway URL configured the first outbound call is one POST to
\* {gateway}/api/chat, and when it succeeds its response body is returned and no
\* POST to an agent's /query is made; without a gateway URL no call goes to
\* /api/chat and the call goes straight to direct selection.
C9_GatewayFirst ==
    /\ (GatewayConfigured /\ rcall.pc # "idle")
          => /\ Len(rcall.calls) >= 1
             /\ rcall.calls[1] = HttpPost(env.PLATFORM_GATEWAY_URL \o "/api/chat", rcall.request)
             /\ ChatCalls(rcall) = {1}
    /\ (GatewayConfigured /\ Len(rcall.settled) >= 1 /\ rcall.settled[1].fulfilled)
          => /\ rcall.pc = "done" /\ rcall.result = rcall.settled[1].data
             /\ QueryCalls(rcall) = {}
    /\ (~GatewayConfigured /\ rcall.pc # "idle")
          => /\ ChatCalls(rcall) = {}
             /\ determineAgentUrl(env, rcall.request.message) = Undefined => (rcall.calls = <<>> /\ rcall.pc = "done")
             /\ determineAgentUrl(env, rcall.request.message) # Undefined
                   => rcall.calls = <<HttpPost(determineAgentUrl(env, rcall.request.message) \o "/query", rcall.request)>>

C9_Witness ==
    /\ GatewayConfigured /\ rcall.pc = "done"
    /\ Len(rcall.settled) = 1 /\ rcall.settled[1].fulfilled
    /\ rcall.result.success
    /\ Len(rcall.calls) = 1
    /\ ~IsFalsy(determineAgentUrl(env, rcall.request.message))

\* C10 as claimed: once the gateway call has failed and some agent endpoint is
\* configured, routeToAgent has made exactly one POST {agentUrl}/query when it
\* returns.
C10_FallbackIfAnyEndpoint ==
    (rcall.pc = "done" /\ GatewayFailed(rcall) /\ \E c \in Categories : ~IsFalsy(env.agentUrls[c]))
        => Cardinality(QueryCalls(rcall)) = 1

\* C10 amended: once the gateway call has failed and the endpoint of the
\* category selected for the message is configured, routeToAgent makes exactly
\* one POST {agentUrl}/query, to that endpoint, before it returns.
C10_FallbackIfSelectedEndpoint ==
    (GatewayFailed(rcall) /\ ~IsFalsy(env.agentUrls[SelectedCategory(rcall.request.message)]))
        => /\ Len(rcall.calls) = 2
           /\ rcall.calls[2] = HttpPost(env.agentUrls[SelectedCategory(rcall.request.message)] \o "/query", rcall.request)
           /\ rcall.pc = "done" => Len(rcall.settled) = 2

C10_Witness ==
    /\ rcall.pc = "done" /\ GatewayFailed(rcall)
    /\ ~IsFalsy(env.agentUrls[SelectedCategory(rcall.request.message)])
    /\ Len(rcall.calls) = 2 /\ Len(rcall.settled) = 2
    /\ ~rcall.settled[2].fulfilled
    /\ rcall.result.message = "Error processing request. Please try again later."

NoEndpointSelected(rt) == rt.pc # "idle" /\ determineAgentUrl(env, rt.request.message) = Undefined

IsNoAgentResult(result) == result.success = FALSE /\ result.message = "No suitable agent found for this request"

\* C11 as claimed: when the category selected for the message has no configured
\* URL, routeToAgent returns the failure 'No suitable agent found for this
\* request' and has made no outbound HTTP request at all.
C11_NoEndpointNoRequest ==
    (rcall.pc = "done" /\ NoEndpointSelected(rcall))
        => (IsNoAgentResult(rcall.result) /\ rcall.calls = <<>>)

\* C11 amended: when the category selected for the message has no configured
\* URL, routeToAgent never posts to an agent's /query; without a gateway it
\* returns the failure 'No suitable agent found for this request' having made no
\* request at all, and with a gateway it makes the one POST to /api/chat and
\* returns that failure when the gateway call has failed.
C11_NoEndpointNoAgentRequest ==
    NoEndpointSelected(rcall)
        => /\ QueryCalls(rcall) = {}
           /\ ~GatewayConfigured => (rcall.pc = "done" /\ rcall.calls = <<>> /\ IsNoAgentResult(rcall.result))
           /\ GatewayFailed(rcall) => (rcall.pc = "done" /\ Len(rcall.calls) = 1 /\ IsNoAgentResult(rcall.result))

C11_Witness ==
    /\ NoEndpointSelected(rcall) /\ GatewayFailed(rcall)
    /\ rcall.pc = "done" /\ IsNoAgentResult(rcall.result)
    /\ \E c \in Categories : ~IsFalsy(env.agentUrls[c])

\* the direct call of rt has been made and has failed
DirectFailed(rt) ==
    /\ rt.calls # <<>> /\ Len(rt.settled) = Len(rt.calls)
    /\ IsQueryCall(rt.calls[Len(rt.calls)])
    /\ ~rt.settled[Len(rt.settled)].fulfilled

\* C12: when the direct POST {agentUrl}/query fails, routeToAgent makes no further
\* call and returns {success: false, message: 'Error processing request. Please
\* try again later.', timestamp}, whose message is not that of the
\* missing-endpoint result.
C12_DirectFailureIsTerminal ==
    DirectFailed(rcall)
        => /\ rcall.pc = "done"
           /\ Cardinality(QueryCalls(rcall)) = 1
           /\ rcall.result.success = FALSE
           /\ rcall.result.message = "Error processing request. Please try again later."
           /\ rcall.result.timestamp = now
           /\ ~IsNoAgentResult(rcall.result)

C12_Witness ==
    /\ DirectFailed(rcall) /\ ~GatewayConfigured
    /\ rcall.pc = "done" /\ Len(rcall.calls) = 1
    /\ rcall.result.message = "Error processing request. Please try again later."

InFlight(rt) == Len(rt.calls) - Len(rt.settled)

\* C13: one routeToAgent call makes at most two outbound calls, at most one to the
\* gateway and at most one to an agent; at most one call is in flight at a time,
\* and with a gateway the agent call is made only after the gateway call has failed.
C13_AtMostTwoSequentialCalls ==
    /\ Len(rcall.calls) <= 2
    /\ Cardinality(ChatCalls(rcall)) <= 1
    /\ Cardinality(QueryCalls(rcall)) <= 1
    /\ InFlight(rcall) \in {0, 1}
    /\ (GatewayConfigured /\ QueryCalls(rcall) # {}) => (GatewayFailed(rcall) /\ QueryCalls(rcall) = {2})

C13_Witness ==
    /\ GatewayFailed(rcall) /\ rcall.pc = "direct"
    /\ Len(rcall.calls) = 2 /\ Len(rcall.settled) = 1
    /\ IsChatCall(rcall.calls[1]) /\ IsQueryCall(rcall.calls[2])

\* C14: a gateway response with a 2xx status whose body is not an AgentResponse
\* (no success and message fields) is treated as a gateway failure: that body is
\* not returned, routeToAgent goes on to direct selection.
C14_MalformedGatewayBodyFallsBack ==
    (GatewayConfigured /\ Len(rcall.settled) >= 1 /\ rcall.settled[1].fulfilled /\ ~rcall.settled[1].data.wellFormed)
        => ~(rcall.pc = "done" /\ rcall.result = rcall.settled[1].data /\ Len(rcall.settled) = 1)

(***************************************************************************)
(* The keyword classification policy, as documented: the categories in     *)
(* their rank order (lab-analysis is the category of the spectra endpoint, *)
(* customer-support that of the customerSuccess endpoint) and their        *)
(* keywords.                                                               *)
(***************************************************************************)
PolicyOrder == <<"compliance", "formulation", "science", "marketing", "operations", "sourcing", "patent", "spectra", "customerSuccess">>

PolicyKeywords ==
    [compliance |-> {"compliance", "regulation", "fda", "legal", "sop"},
     formulation |-> {"formulation", "recipe", "ingredient", "dosage", "concentration"},
     science |-> {"science", "research", "study", "analysis", "testing"},
     marketing |-> {"marketing", "brand", "promotion", "advertising", "social media"},
     operations |-> {"operation", "process", "workflow", "efficiency", "management"},
     sourcing |-> {"sourcing", "supplier", "vendor", "procurement", "supply chain"},
     patent |-> {"patent", "intellectual property", " ip ", "trademark", "copyright"},
     spectra |-> {"spectra", "gcms", "coa", "testing", "analysis"},
     customerSuccess |-> {"customer", "support", "help", "issue", "problem"}]

\* the ranks of the categories one of whose keywords occurs in the lower-cased message
PolicyHits(message) == {k \in 1..Len(PolicyOrder) : \E w \in PolicyKeywords[PolicyOrder[k]] : Includes(ToLowerCase(message), w)}

\* the earliest-ranked of them
PolicyCategory(message) == PolicyOrder[CHOOSE k \in PolicyHits(message) : \A j \in PolicyHits(message) : k <= j]

\* every POST to an agent's /query made by rt went to the endpoint of category cat
QueriesGoTo(rt, cat) == \A k \in QueryCalls(rt) : rt.calls[k].url = Str(env.agentUrls[cat]) \o "/query"

\* C15: direct selection picks the first category, in the order compliance,
\* formulation, science, marketing, operations, sourcing, patent, lab-analysis,
\* customer-support, one of whose keywords occurs in the lower-cased message;
\* a message with keywords of several categories goes to the earliest-ranked one.
C15_FirstMatchingCategory ==
    (rcall.pc # "idle" /\ PolicyHits(rcall.request.message) # {})
        => QueriesGoTo(rcall, PolicyCategory(rcall.request.message))

\* C16: a message that contains none of 'patent', 'intellectual property',
\* ' ip ', 'trademark', 'copyright' is not classified as patent/IP and is never
\* routed to the patent endpoint, even if the letters 'ip' occur inside a word.
C16_PatentOnlyByPatentKeyword ==
    (rcall.pc # "idle" /\ \A w \in PolicyKeywords.patent : ~Includes(ToLowerCase(rcall.request.message), w))
        => \A k \in QueryCalls(rcall) : rcall.calls[k].url # Str(env.agentUrls.patent) \o "/query"

\* C17: a message that contains none of the listed keywords of any category is
\* routed to the compliance endpoint when one is configured, and never to the
\* endpoint of another category.
C17_DefaultIsCompliance ==
    (rcall.pc # "idle" /\ PolicyHits(rcall.request.message) = {})
        => /\ QueriesGoTo(rcall, "compliance")
           /\ (~IsFalsy(env.agentUrls.compliance) /\ (~GatewayConfigured \/ GatewayFailed(rcall)))
                 => Cardinality(QueryCalls(rcall)) = 1

(***************************************************************************)
(* Properties of the routing and of the events endpoint, on the server.    *)
(***************************************************************************)
Urls(rt) == [k \in 1..Len(rt.calls) |-> rt.calls[k].url]

\* two routeToAgent calls for the same message that have seen the same downstream outcomes
SameRun(a, b) == a.pc # "idle" /\ b.pc # "idle" /\ a.request.message = b.request.message /\ a.settled = b.settled

VerifiedEvent(r, type) == r.endpoint = "events" /\ r.verified = "true" /\ r.body.type = type

\* C19: a verified url_verification request is answered 200 with the challenge
\* of the request, and neither processSlackEvent nor routeToAgent runs for it.
C19_ChallengeEchoed ==
    \A i \in DOMAIN reqs :
        VerifiedEvent(reqs[i], "url_verification")
            => /\ reqs[i].status = 200
               /\ reqs[i].reply.shape = "challenge" /\ reqs[i].reply.challenge = reqs[i].body.challenge
               /\ reqs[i].route = IdleRoute
               /\ reqs[i].handled = NotHandled

C19_Witness ==
    \E i \in DOMAIN reqs :
        /\ VerifiedEvent(reqs[i], "url_verification")
        /\ reqs[i].status = 200 /\ reqs[i].reply.challenge = "x"

\* C20: a verified event_callback request is answered 200 'OK' as soon as it is
\* handled, while its routing is still under way, and the answer stays 200 'OK'
\* whatever the routing ends with.
C20_EventAnswerIndependentOfRouting ==
    \A i \in DOMAIN reqs :
        VerifiedEvent(reqs[i], "event_callback")
            => (reqs[i].status = 200 /\ reqs[i].reply = TextReply("OK"))

C20_Witness ==
    \E i \in DOMAIN reqs :
        /\ VerifiedEvent(reqs[i], "event_callback")
        /\ reqs[i].route.pc = "done" /\ Len(reqs[i].route.settled) = 2
        /\ ~reqs[i].route.settled[2].fulfilled
        /\ reqs[i].handled.done /\ ~reqs[i].handled.success
        /\ reqs[i].status = 200

(***************************************************************************)
(* Slash commands and the direct API.                                      *)
(***************************************************************************)
VerifiedCommand(r) == r.endpoint = "commands" /\ r.verified = "true"

UsageText == "Usage: /f8 [question]"

\* C21: a verified POST /api/slack/commands whose text is empty is answered 200
\* with response_type 'ephemeral' and a text that ends in 'Usage: /f8 [question]',
\* and routeToAgent is not invoked for it.
C21_EmptyCommandGetsUsage ==
    \A i \in 1..Len(reqs) :
        (VerifiedCommand(reqs[i]) /\ reqs[i].body.text = "") =>
            /\ reqs[i].status = 200
            /\ reqs[i].reply.shape = "command"
            /\ reqs[i].reply.response_type = "ephemeral"
            /\ EndsWith(reqs[i].reply.text, UsageText)
            /\ reqs[i].route = IdleRoute

C21_Witness ==
    \E i \in 1..Len(reqs) :
        /\ VerifiedCommand(reqs[i]) /\ reqs[i].body.text = ""
        /\ reqs[i].status = 200 /\ reqs[i].reply.response_type = "ephemeral"

\* C22: routeToAgent is never invoked with a message that is empty after
\* trimming: on the three entry points a request whose extracted text is empty
\* or only whitespace is answered without a call of the router.
C22_RouterMessageNeverBlank ==
    \A i \in 1..Len(reqs) :
        reqs[i].route.pc # "idle" => Trim(reqs[i].route.request.message) # ""

\* the routeToAgent call of the request has returned
RouterReturned(r) == r.route.pc = "done"

\* the router's result is an object whose success field is true
RouterSucceeded(r) == RouterReturned(r) /\ ~r.route.result.isNull /\ r.route.result.success

RawExceptionTexts == {BufferLengthError, NullSuccessError}

HasRawExceptionText(text) == text # Undefined /\ \E x \in RawExceptionTexts : Includes(text, x)

\* C24: no response returned to a caller contains the text of a raw internal
\* exception: when the verifier, the router or a handler raises, the reply (the
\* slash-command reply included) carries only a fixed user-safe message.
C24_NoRawExceptionText ==
    \A i \in 1..Len(reqs) :
        /\ ~HasRawExceptionText(reqs[i].reply.text)
        /\ ~HasRawExceptionText(reqs[i].reply.message)
        /\ ~HasRawExceptionText(reqs[i].reply.error)

\* C25: POST /api/slack/ask-f8 with a missing or empty question is answered 400
\* {success: false, message: 'Question is required'}, and routeToAgent is not
\* invoked for it.
C25_QuestionRequired ==
    \A i \in 1..Len(reqs) :
        (reqs[i].endpoint = "ask-f8" /\ reqs[i].body.question \in {Undefined, ""}) =>
            /\ reqs[i].status = 400
            /\ reqs[i].reply = ResultReply(FALSE, "Question is required", Undefined, FALSE, NoTimestamp)
            /\ reqs[i].route = IdleRoute

C25_Witness ==
    \E i \in 1..Len(reqs) :
        reqs[i].endpoint = "ask-f8" /\ reqs[i].body.question = "" /\ reqs[i].status = 400

\* the routeToAgent call of an Ask F8 request has returned a result object
AskF8Answered(r) == r.endpoint = "ask-f8" /\ RouterReturned(r) /\ ~r.route.result.isNull

\* C26: processAskF8 returns the router's success and message unchanged,
\* includes agent and usage only when the router supplied them, and always
\* includes a timestamp: the router's when present, otherwise the current time.
C26_AskF8PassesResultOn ==
    \A i \in 1..Len(reqs) :
        AskF8Answered(reqs[i]) =>
            LET response == reqs[i].route.result
                reply == reqs[i].reply
            IN  /\ reply.shape = "result"
                /\ reply.success = response.success
                /\ reply.message = response.message
                /\ reply.agent = response.agent
                /\ reply.hasUsage = response.hasUsage
                /\ reply.timestamp # NoTimestamp
                /\ response.timestamp # NoTimestamp => reply.timestamp = response.timestamp
                /\ response.timestamp = NoTimestamp => reply.timestamp = now

C26_Witness ==
    \E i \in 1..Len(reqs) :
        /\ AskF8Answered(reqs[i])
        /\ reqs[i].route.result.success /\ reqs[i].route.result.hasUsage
        /\ reqs[i].route.result.timestamp # NoTimestamp /\ reqs[i].route.result.timestamp # now
        /\ reqs[i].reply.timestamp = reqs[i].route.result.timestamp

\* every outbound call the routeToAgent call has made has settled
AllCallsSettled(rt) == rt.pc # "idle" /\ InFlight(rt) = 0

\* C27: routeToAgent, processSlackEvent, processSlackCommand and processAskF8
\* never reject when given a string message: whatever the outcome of the
\* gateway and direct calls, routeToAgent returns a result value and the
\* handler's promise is fulfilled with a value, never rejected.
C27_NeverRejects ==
    \A i \in 1..Len(reqs) :
        /\ ~reqs[i].handled.rejected
        /\ reqs[i].route.pc \in {"idle", "gateway", "direct", "done"}
        /\ AllCallsSettled(reqs[i].route) => (RouterReturned(reqs[i]) /\ reqs[i].handled.done)

C27_Witness ==
    \E i \in 1..Len(reqs) :
        /\ reqs[i].endpoint = "events"
        /\ Len(reqs[i].route.settled) = 2
        /\ ~reqs[i].route.settled[1].fulfilled /\ reqs[i].route.settled[2].fulfilled
        /\ reqs[i].route.result.isNull
        /\ reqs[i].handled.done /\ ~reqs[i].handled.rejected

(***************************************************************************)
(* Termination of the routing.                                             *)
(***************************************************************************)
TimedOut(settled) == ~settled.fulfilled /\ settled.data = CallError("ECONNABORTED")

\* what routeToAgent does after the k-th call has failed: after the gateway call
\* the direct selection (one call to an agent, or the result 'No suitable agent
\* found'), after the direct call the failure result
FailureHandled(rt, k) ==
    IF IsChatCall(rt.calls[k])
    THEN \/ Len(rt.calls) = k + 1 /\ IsQueryCall(rt.calls[k + 1])
         \/ Len(rt.calls) = k /\ rt.pc = "done" /\ IsNoAgentResult(rt.result)
    ELSE Len(rt.calls) = k /\ rt.pc = "done" /\ ~rt.result.success
         /\ rt.result.message = "Error processing request. Please try again later."

\* C28: every routeToAgent call terminates: each outbound call completing or
\* being cut off by its 30-second timeout, the call eventually returns a result
\* (success or failure); and a timeout is handled like any other failure of the
\* call: fallback at the gateway step, the failure result at the direct step.
C28_RoutingTerminates ==
    /\ [](\A k \in 1..Len(rcall.settled) : ~rcall.settled[k].fulfilled => FailureHandled(rcall, k))
    /\ (rcall.pc # "idle") ~> (rcall.pc = "done")

C28_Witness ==
    /\ rcall.pc = "done"
    /\ Len(rcall.settled) = 2
    /\ TimedOut(rcall.settled[1]) /\ TimedOut(rcall.settled[2])
    /\ ~rcall.result.success

(***************************************************************************)
(* The answer to an event.                                                 *)
(***************************************************************************)
\* an app_mention or message event whose question the router has answered
EventAnswered(r) ==
    /\ VerifiedEvent(r, "event_callback")
    /\ r.body.event.type \in {"app_mention", "message"}
    /\ RouterSucceeded(r)

\* a message with the answer has been posted to the channel and thread of the event
AnswerPosted(r) ==
    \E k \in 1..Len(r.posted) :
        /\ r.posted[k].channel = r.body.event.channel
        /\ r.posted[k].thread_ts = r.body.event.ts
        /\ r.posted[k].text = r.route.result.message

\* C29: after an app_mention or message event has been routed successfully, the
\* agent's answer is eventually posted back to the Slack channel (and thread)
\* the event came from.
C29_AnswerEventuallyPosted ==
    \A i \in 1..MaxRequests : EventAnswered(reqs[i]) ~> AnswerPosted(reqs[i])

(***************************************************************************)
(* A category without endpoint.                                            *)
(***************************************************************************)
\* routeToAgent has come to the direct selection: no gateway, or its call failed
DirectSelectionReached(rt) == rt.pc # "idle" /\ (~GatewayConfigured \/ GatewayFailed(rt))

\* the category selected for the message of rt has no URL, another category has one
OnlyOtherEndpoints(rt) ==
    /\ IsFalsy(env.agentUrls[SelectedCategory(rt.request.message)])
    /\ \E c \in Categories : ~IsFalsy(env.agentUrls[c])

\* C30 as claimed: when the category selected for a message has no configured
\* endpoint, routeToAgent fails with 'No suitable agent found for this request'
\* even if endpoints of other categories (compliance included) are configured,
\* and makes no direct call.
C30_MissingEndpointAlwaysFails ==
    (rcall.pc = "done" /\ OnlyOtherEndpoints(rcall)) =>
        /\ rcall.result.success = FALSE
        /\ rcall.result.message = "No suitable agent found for this request"
        /\ QueryCalls(rcall) = {}

\* C30 amended: when routeToAgent comes to the direct selection (no gateway is
\* configured, or the one gateway call has failed) and the category selected for
\* the message has no configured endpoint, it fails with 'No suitable agent
\* found for this request' even if endpoints of other categories (compliance
\* included) are configured: no call is made to any agent, and nothing is
\* retried.
C30_MissingEndpointNotReplaced ==
    (DirectSelectionReached(rcall) /\ OnlyOtherEndpoints(rcall)) =>
        /\ rcall.pc = "done"
        /\ rcall.result.success = FALSE
        /\ rcall.result.message = "No suitable agent found for this request"
        /\ \A k \in 1..Len(rcall.calls) : rcall.calls[k].url = Str(env.PLATFORM_GATEWAY_URL) \o "/api/chat"
        /\ Len(rcall.calls) = (IF GatewayConfigured THEN 1 ELSE 0)
        /\ Len(rcall.settled) = Len(rcall.calls)

C30_Witness ==
    /\ DirectSelectionReached(rcall) /\ OnlyOtherEndpoints(rcall)
    /\ rcall.request.message = "shipping costs"
    /\ ~IsFalsy(env.agentUrls["compliance"])
    /\ rcall.pc = "done" /\ rcall.calls = <<>>
    /\ rcall.result.message = "No suitable agent found for this request"

(***************************************************************************)
(* Overlapping vocabulary.                                                 *)
(***************************************************************************)
\* rt has posted to the /query of the endpoint of category cat
PostsTo(rt, cat) ==
    /\ ~IsFalsy(env.agentUrls[cat])
    /\ \E k \in QueryCalls(rt) : rt.calls[k].url = env.agentUrls[cat] \o "/query"

MentionsAny(message, words) == \E w \in words : Includes(ToLowerCase(message), w)

\* C31: a message containing 'testing' or 'analysis' is never routed to the
\* lab-analysis (spectra) endpoint: it goes to science or to an earlier-ranked
\* category; lab-analysis is selected only through 'spectra', 'gcms' or 'coa',
\* when no earlier-ranked category matches.
C31_SharedKeywordsGoToScience ==
    /\ (rcall.pc # "idle" /\ MentionsAny(rcall.request.message, {"testing", "analysis"})) =>
            /\ ~PostsTo(rcall, "spectra")
            /\ \A k \in QueryCalls(rcall) :
                   \E c \in {"compliance", "formulation", "science"} : rcall.calls[k].url = Str(env.agentUrls[c]) \o "/query"
    /\ PostsTo(rcall, "spectra") =>
            /\ MentionsAny(rcall.request.message, {"spectra", "gcms", "coa"})
            /\ PolicyCategory(rcall.request.message) = "spectra"

C31_Witness ==
    /\ rcall.request.message = "Analysis of the GCMS spectra"
    /\ PostsTo(rcall, "science")
    /\ ~IsFalsy(env.agentUrls["spectra"])

(***************************************************************************)
(* The events that are routed.                                             *)
(***************************************************************************)
\* an event processSlackEvent may route: an app mention or a message, not a bot's
RoutableEvent(event) == event.type \in {"app_mention", "message"} /\ event.subtype # "bot_message"

\* C32: processSlackEvent invokes routeToAgent only for events of type
\* 'app_mention' or 'message' whose subtype is not 'bot_message'; for every
\* other event it returns success true without any router call.
C32_OnlyUserEventsRouted ==
    \A i \in 1..Len(reqs) :
        VerifiedEvent(reqs[i], "event_callback") =>
            /\ reqs[i].route.pc # "idle" => RoutableEvent(reqs[i].body.event)
            /\ ~RoutableEvent(reqs[i].body.event) =>
                   /\ reqs[i].handled.done /\ reqs[i].handled.success /\ ~reqs[i].handled.rejected
                   /\ reqs[i].route = IdleRoute

C32_Witness ==
    \E i \in 1..Len(reqs) :
        /\ VerifiedEvent(reqs[i], "event_callback")
        /\ reqs[i].body.event.type = "message" /\ reqs[i].body.event.subtype = "bot_message"
        /\ reqs[i].handled.done /\ reqs[i].handled.success
        /\ reqs[i].route = IdleRoute

(***************************************************************************)
(* The question taken from an event.                                       *)
(***************************************************************************)
\* s holds mention markup: "<@", one or more characters other than ">", and ">"
HasMention(s) ==
    \E i \in 1..Len(s), j \in 1..Len(s) :
        /\ j >= i + 3
        /\ SubSeq(s, i, i + 1) = "<@"
        /\ CharAt(s, j) = ">"
        /\ \A k \in (i + 2)..(j - 1) : CharAt(s, k) # ">"

\* C33: the message processSlackEvent passes to the router is the event text with
\* every '<@...>' mention removed and surrounding white space trimmed: it holds
\* no mention markup, whatever the number and position of the mentions.
C33_NoMentionInQuestion ==
    \A i \in 1..Len(reqs) :
        (reqs[i].endpoint = "events" /\ reqs[i].route.pc # "idle") =>
            /\ ~HasMention(reqs[i].route.request.message)
            /\ Trim(reqs[i].route.request.message) = reqs[i].route.request.message

(***************************************************************************)
(* What is sent downstream.                                                *)
(***************************************************************************)
\* C34: the gateway call and the direct call of one routeToAgent invocation carry
\* the same body {message, user_id, context}, with the values exactly as given
\* in the request: the classification lower-cases a copy only, and the failed
\* gateway attempt does not alter the fallback call.
C34_SameBodyOnBothCalls ==
    /\ \A k \in 1..Len(rcall.calls) :
           /\ DOMAIN rcall.calls[k].body = {"message", "user_id", "context"}
           /\ rcall.calls[k].body.message = rcall.request.message
           /\ rcall.calls[k].body.user_id = rcall.request.user_id
           /\ rcall.calls[k].body.context = rcall.request.context
    /\ \A k, l \in 1..Len(rcall.calls) : rcall.calls[k].body = rcall.calls[l].body
    /\ rcall.pc # "idle" => (rcall.request.user_id = "U1" /\ rcall.request.context = RouteContext /\ rcall.request.message \in RouteMessages)

C34_Witness ==
    /\ Len(rcall.calls) = 2
    /\ IsChatCall(rcall.calls[1]) /\ IsQueryCall(rcall.calls[2])
    /\ rcall.calls[2].body.message = "What are FDA regulations?"
    /\ rcall.calls[1].body = rcall.calls[2].body

\* the gateway has answered rt with a 2xx status and a body whose success is false
GatewayAnsweredNo(rt) ==
    /\ GatewayConfigured /\ Len(rt.settled) >= 1
    /\ rt.settled[1].fulfilled /\ rt.settled[1].data.wellFormed /\ ~rt.settled[1].data.success

\* C35: a gateway response with a 2xx status whose body has success false is
\* returned to the caller as it is and triggers no direct fallback; the fallback
\* happens only when the gateway call itself has failed.
C35_NegativeAnswerIsReturned ==
    /\ GatewayAnsweredNo(rcall) =>
           /\ rcall.pc = "done"
           /\ rcall.result = AgentResponse(FALSE, "Agent could not answer", Undefined, FALSE, NoTimestamp)
           /\ Len(rcall.calls) = 1 /\ IsChatCall(rcall.calls[1])
    /\ (GatewayConfigured /\ Len(rcall.calls) > 1) => ~rcall.settled[1].fulfilled

C35_Witness ==
    /\ GatewayAnsweredNo(rcall)
    /\ ~IsFalsy(env.agentUrls[SelectedCategory(rcall.request.message)])
    /\ rcall.pc = "done" /\ ~rcall.result.success

(***************************************************************************)
(* The verifier keeps no state.                                            *)
(***************************************************************************)
WindowPassed(timestamp, currentTime) == ~ParseInt(timestamp).nan /\ currentTime - ParseInt(timestamp).val > Window

\* C36: verifySlackSignature keeps no state between calls: an input (body,
\* signature, timestamp) that was accepted is accepted again every time it is
\* presented while |now - timestamp| <= 300, whatever other calls were made in
\* between, and, the clock not going back, is rejected on every presentation
\* after the window has passed.
C36_VerifierKeepsNoState ==
    [][VerifyCall =>
          /\ (vcall.result = "true" /\ TimestampCurrent(vcall.timestamp, now)) => vcall'.result = "true"
          /\ WindowPassed(vcall.timestamp, now) => vcall'.result = "false"]_vars

C36_Witness ==
    /\ vcall.prev = "true" /\ vcall.result = "true"
    /\ vcall.timestamp = "1000"
    /\ vcall.at = Now0 + Window
    /\ vcall.between > 0

\* s is a decimal integer: one or more decimal digits and nothing else
IsDecimalInteger(s) == Len(s) > 0 /\ \A k \in 1..Len(s) : IsDigit(CharAt(s, k))

\* C37: verifySlackSignature accepts no timestamp string that is not a decimal
\* integer (text without digits, or digits followed by other characters), even
\* when the signature presented is the correct HMAC for that string.
C37_NonNumericTimestampRefused ==
    (Called /\ ~IsDecimalInteger(vcall.timestamp)) => vcall.result # "true"

(***************************************************************************)
(* Requests handled concurrently.                                          *)
(***************************************************************************)
\* the request as it arrived
Arrived(r) == HttpRequest(r.endpoint, r.hasSignature, r.signature, r.hasTimestamp, r.timestamp, r.body)

\* the handler of its endpoint, up to its first await
Handle(e, currentTime, r) ==
    IF r.endpoint = "events" THEN handleSlackEvents(e, currentTime, r)
    ELSE IF r.endpoint = "commands" THEN handleSlackCommands(e, currentTime, r)
    ELSE handleAskF8(e, currentTime, r)

\* the call r awaits settles
Settle(e, currentTime, r, outcome) ==
    IF r.route.pc = "gateway"
    THEN Routed(currentTime, [r EXCEPT !.route = GatewaySettles(e, currentTime, @, outcome.fulfilled, outcome.data)])
    ELSE IF r.route.pc = "direct"
    THEN Routed(currentTime, [r EXCEPT !.route = DirectSettles(currentTime, @, outcome.fulfilled, outcome.data)])
    ELSE r

RECURSIVE Replay(_, _, _, _)
Replay(e, currentTime, r, outcomes) ==
    IF outcomes = <<>> THEN r
    ELSE Replay(e, currentTime, Settle(e, currentTime, r, Head(outcomes)), Tail(outcomes))

\* what becomes of the request when it is the only one the server handles and
\* its outbound calls settle as they did
RunsAlone(e, currentTime, r) == Replay(e, currentTime, Handle(e, currentTime, Arrived(r)), r.route.settled)

=============================================================================
